---- MODULE Spec2Model ----
(***************************************************************************)
(* SilverStream home view (src/app/routes/home.tsx): the catalog loader,   *)
(* the filter / option derivation / pagination functions, and the React    *)
(* state machine that ties the filter criteria to the URL query string;    *)
(* and the detail view (MovieDetail), which looks a movie up by the title  *)
(* in the URL.                                                             *)
(*                                                                         *)
(* Strings are sequences of one-character strings, so that toLowerCase,    *)
(* includes, the default (UTF-16 code unit) sort and parseInt are computed *)
(* as the JavaScript runtime computes them.  A nullable value is a         *)
(* sequence of length 0 (null) or 1 (the value).                           *)
(***************************************************************************)
EXTENDS Integers, Sequences, FiniteSets, TLC

None == <<>>
Some(x) == <<x>>

\* ------------------------------------------------------------------ bounds
\* Longest catalog among the exhaustively enumerated small catalogs.
MaxCatalogLen == 1
\* Length of the long catalog used to exercise pagination.
BigLen == 45
\* How many entries of each dropdown the modelled user picks from.
MaxOptions == 1
\* How many times the URL is changed from outside the view (back/forward).
MaxUrlChanges == 1
\* How many times the :title segment changes while the detail view is shown.
MaxTitleChanges == 2
\* Most pages of the catalogs used to exercise the pagination controls.
MaxPagerPages == 8

\* --------------------------------------------------------------- constants
MOVIES_PER_PAGE == 20

\* ----------------------------------------------------------------- strings
Empty == <<>>

\* UTF-16 code unit of a character (String.prototype.charCodeAt).
CodeUnit(c) ==
    CASE c = "%" -> 37
      [] c = "0" -> 48 [] c = "1" -> 49 [] c = "2" -> 50 [] c = "4" -> 52
      [] c = "5" -> 53 [] c = "9" -> 57
      [] c = "A" -> 65 [] c = "B" -> 66 [] c = "C" -> 67 [] c = "G" -> 71
      [] c = "P" -> 80 [] c = "R" -> 82
      [] c = "a" -> 97 [] c = "b" -> 98 [] c = "c" -> 99

\* String.prototype.toLowerCase, one character.
ToLowerChar(c) ==
    CASE c = "A" -> "a" [] c = "B" -> "b" [] c = "C" -> "c" [] c = "G" -> "g"
      [] c = "P" -> "p" [] c = "R" -> "r" [] OTHER -> c

ToLowerCase(s) == [i \in 1..Len(s) |-> ToLowerChar(s[i])]

\* Whether needle occurs in hay at 0-based offset k.
MatchesAt(hay, needle, k) ==
    /\ k + Len(needle) <= Len(hay)
    /\ SubSeq(hay, k + 1, k + Len(needle)) = needle

\* String.prototype.includes: scan the offsets from k upwards.
RECURSIVE IncludesFrom(_, _, _)
IncludesFrom(hay, needle, k) ==
    IF k + Len(needle) > Len(hay) THEN FALSE
    ELSE IF MatchesAt(hay, needle, k) THEN TRUE
    ELSE IncludesFrom(hay, needle, k + 1)

StringIncludes(hay, needle) == IncludesFrom(hay, needle, 0)

\* Array.prototype.includes on an array of strings.
ArrayIncludes(arr, x) == \E i \in 1..Len(arr) : arr[i] = x

\* The default sort order of Array.prototype.sort: by UTF-16 code units.
RECURSIVE StringLess(_, _)
StringLess(a, b) ==
    IF Len(b) = 0 THEN FALSE
    ELSE IF Len(a) = 0 THEN TRUE
    ELSE IF CodeUnit(a[1]) < CodeUnit(b[1]) THEN TRUE
    ELSE IF CodeUnit(a[1]) > CodeUnit(b[1]) THEN FALSE
    ELSE StringLess(Tail(a), Tail(b))

IsDigit(c) == CodeUnit(c) >= 48 /\ CodeUnit(c) <= 57

\* parseInt on a string of decimal digits: the value of the leading digits.
\* (Catalog years are 4-digit strings, so the NaN case does not arise.)
RECURSIVE ParseIntFrom(_, _)
ParseIntFrom(s, acc) ==
    IF Len(s) = 0 \/ ~IsDigit(s[1]) THEN acc
    ELSE ParseIntFrom(Tail(s), acc * 10 + (CodeUnit(s[1]) - 48))

ParseInt(s) == ParseIntFrom(s, 0)

\* --------------------------------------------------- option derivation
\* Set.prototype.add on an insertion-ordered set.
SetAdd(set, x) == IF ArrayIncludes(set, x) THEN set ELSE Append(set, x)

RECURSIVE AddAll(_, _)
AddAll(set, xs) ==
    IF Len(xs) = 0 THEN set ELSE AddAll(SetAdd(set, Head(xs)), Tail(xs))

\* One iteration of moviesData.movies.forEach (lines 93-97) for one of the
\* three sets.
AddMovie(kind, acc, movie) ==
    IF kind = "genres" THEN AddAll(acc, movie.genres)
    ELSE IF kind = "years" THEN SetAdd(acc, movie.year)
    ELSE SetAdd(acc, movie.rating)

\* The forEach loop over movies[lo..hi], in index order, starting from acc
\* (evaluated by halves to keep the evaluation shallow; the order of the
\* iterations is that of the loop).
RECURSIVE CollectRange(_, _, _, _, _)
CollectRange(kind, movies, lo, hi, acc) ==
    IF lo > hi THEN acc
    ELSE IF lo = hi THEN AddMovie(kind, acc, movies[lo])
    ELSE LET mid  == (lo + hi) \div 2
             left == CollectRange(kind, movies, lo, mid, acc)
         IN  IF Len(left) >= 0
             THEN CollectRange(kind, movies, mid + 1, hi, left)
             ELSE left

CollectGenres(movies) == CollectRange("genres", movies, 1, Len(movies), <<>>)
CollectYears(movies) == CollectRange("years", movies, 1, Len(movies), <<>>)
CollectRatings(movies) == CollectRange("ratings", movies, 1, Len(movies), <<>>)

\* Comparator of the default sort: a goes before b.
DefaultBefore(a, b) == StringLess(a, b)

\* Mutant: the year comparator subtracts the other way round (ascending).
YearBeforeAscending(a, b) == ParseInt(a) - ParseInt(b) < 0

\* Comparator (a, b) => parseInt(b) - parseInt(a): negative puts a first.
YearBefore(a, b) == ParseInt(b) - ParseInt(a) < 0

\* The comparator handed to sort: the default one, or the year comparator.
Before(cmp, a, b) == IF cmp = "year" THEN YearBefore(a, b) ELSE DefaultBefore(a, b)

\* Array.prototype.sort is stable: insert x after every element that is not
\* strictly after it.
RECURSIVE InsertSorted(_, _, _)
InsertSorted(sorted, x, cmp) ==
    IF Len(sorted) = 0 THEN <<x>>
    ELSE IF Before(cmp, x, Head(sorted)) THEN <<x>> \o sorted
    ELSE <<Head(sorted)>> \o InsertSorted(Tail(sorted), x, cmp)

RECURSIVE SortBy(_, _, _)
SortBy(xs, acc, cmp) ==
    IF Len(xs) = 0 THEN acc
    ELSE SortBy(Tail(xs), InsertSorted(acc, Head(xs), cmp), cmp)

SortGenres(xs) == SortBy(xs, <<>>, "default")
SortYears(xs) == SortBy(xs, <<>>, "year")
SortRatings(xs) == SortBy(xs, <<>>, "default")

\* The filterOptions memo body; data is moviesData (null or the document).
ComputeFilterOptions(data) ==
    IF data = None THEN [genres |-> <<>>, years |-> <<>>, ratings |-> <<>>]
    ELSE [genres  |-> SortGenres(CollectGenres(data[1].movies)),
          years   |-> SortYears(CollectYears(data[1].movies)),
          ratings |-> SortRatings(CollectRatings(data[1].movies))]

\* ------------------------------------------------------------- filtering
\* Mutant: the search compares without lowering the case.
MatchesSearchCaseSensitive(movie, term) ==
    term = Empty \/ StringIncludes(movie.title, term)

MatchesSearch(movie, term) ==
    term = Empty \/ StringIncludes(ToLowerCase(movie.title), ToLowerCase(term))

\* Mutant: the empty genre is looked up like any other.
MatchesGenreNoWildcard(movie, genre) == ArrayIncludes(movie.genres, genre)

MatchesGenre(movie, genre) == genre = Empty \/ ArrayIncludes(movie.genres, genre)

MatchesYear(movie, year) == year = Empty \/ movie.year = year

MatchesRating(movie, rating) == rating = Empty \/ movie.rating = rating

MatchesAll(movie, term, genre, year, rating) ==
    /\ MatchesSearch(movie, term)
    /\ MatchesGenre(movie, genre)
    /\ MatchesYear(movie, year)
    /\ MatchesRating(movie, rating)

\* Mutant: the surviving records come out in reverse catalog order.
ComputeFilteredMoviesReversed(data, term, genre, year, rating) ==
    IF data = None THEN <<>>
    ELSE LET Keep(movie) == MatchesAll(movie, term, genre, year, rating)
             kept == SelectSeq(data[1].movies, Keep)
         IN  [i \in 1..Len(kept) |-> kept[Len(kept) + 1 - i]]

\* The filteredMovies memo body.
ComputeFilteredMovies(data, term, genre, year, rating) ==
    IF data = None THEN <<>>
    ELSE LET Keep(movie) == MatchesAll(movie, term, genre, year, rating)
         IN  SelectSeq(data[1].movies, Keep)

\* ------------------------------------------------------------ pagination
\* Mutant: the page count is rounded down.
TotalPagesFloor(length) == length \div MOVIES_PER_PAGE

\* Math.ceil(length / MOVIES_PER_PAGE)
TotalPagesOf(length) == (length + MOVIES_PER_PAGE - 1) \div MOVIES_PER_PAGE

\* Mutant: the first page starts one page in.
StartIndexOneBased(page) == page * MOVIES_PER_PAGE

StartIndexOf(page) == (page - 1) * MOVIES_PER_PAGE

EndIndexOf(page) == StartIndexOf(page) + MOVIES_PER_PAGE

Max(a, b) == IF a > b THEN a ELSE b
Min(a, b) == IF a < b THEN a ELSE b

\* Array.prototype.slice(start, end): 0-based, end exclusive, clipped.
ArraySlice(arr, start, end) ==
    LET from == IF start < 0 THEN Max(Len(arr) + start, 0) ELSE Min(start, Len(arr))
        to   == IF end < 0 THEN Max(Len(arr) + end, 0) ELSE Min(end, Len(arr))
    IN  SubSeq(arr, from + 1, to)

CurrentMoviesOf(list, page) == ArraySlice(list, StartIndexOf(page), EndIndexOf(page))

\* Mutant: the window is always centred on the current page.
PageNumCentered(i, page, totalPages) == page - 2 + i

\* The page numbers of the numbered buttons (i = 0 .. min(5, totalPages) - 1).
PageNumOf(i, page, totalPages) ==
    IF totalPages <= 5 THEN i + 1
    ELSE IF page <= 3 THEN i + 1
    ELSE IF page >= totalPages - 2 THEN totalPages - 4 + i
    ELSE page - 2 + i

\* ------------------------------------------------------- query parameters
Keys == {"search", "genre", "year", "rating"}

\* searchParams.get(key) || "": null and "" both give "".
GetOrEmpty(params, key) == IF params[key] = None THEN Empty ELSE params[key][1]

\* The criteria read from the query parameters (lines 36-39 and 54-57).
CriteriaFromParams(params) ==
    [searchTerm     |-> GetOrEmpty(params, "search"),
     selectedGenre  |-> GetOrEmpty(params, "genre"),
     selectedYear   |-> GetOrEmpty(params, "year"),
     selectedRating |-> GetOrEmpty(params, "rating")]

\* if (value) params.set(key, value): only non-empty criteria are written.
ParamOf(value) == IF value = Empty THEN None ELSE Some(value)

\* The URLSearchParams built by the URL-update effect.
ParamsFromCriteria(c) ==
    [search |-> ParamOf(c.searchTerm),
     genre  |-> ParamOf(c.selectedGenre),
     year   |-> ParamOf(c.selectedYear),
     rating |-> ParamOf(c.selectedRating)]

\* ------------------------------------------------------------ test data
NoParams == [search |-> None, genre |-> None, year |-> None, rating |-> None]

\* Query strings the view is opened with or moved to by back/forward:
\* none, ?search=a, ?year=2000, ?search=&rating=R (an empty-valued parameter).
URLs ==
    { NoParams,
      [NoParams EXCEPT !.search = Some(<<"a">>)],
      [NoParams EXCEPT !.year = Some(<<"2", "0", "0", "0">>)],
      [NoParams EXCEPT !.search = Some(Empty), !.rating = Some(<<"R">>)] }

\* Query strings reached by back/forward: those without an empty-valued
\* parameter.
HistoryURLs == { u \in URLs : \A k \in Keys : u[k] # Some(Empty) }

\* Texts typed into the search box.
SearchTerms == { Empty, <<"A", "B">> }

MovieA == [title |-> <<"A">>, year |-> <<"2", "0", "0", "0">>, rating |-> <<"R">>,
           genres |-> << <<"a">>, <<"B">> >>]
MovieB == [title |-> <<"B">>, year |-> <<"2", "0", "0", "1">>, rating |-> <<"P", "G">>,
           genres |-> << <<"a">> >>]
MovieC == [title |-> <<"C">>, year |-> <<"2", "0", "0", "0">>, rating |-> <<"R">>,
           genres |-> << <<"B", "a">>, <<"B">> >>]
MovieD == [title |-> <<"C", "a", "b">>, year |-> <<"1", "9", "9", "9">>, rating |-> <<"G">>,
           genres |-> << <<"B">> >>]

SampleMovies == {MovieA, MovieD}

Document(movies) == [total_movies |-> Len(movies), movies |-> movies]

\* A long catalog: years 2000 (20 records), 2001 (21 records), 1999 (the rest).
BigMovie(i) ==
    [title  |-> IF i % 3 = 0 THEN <<"C", "a", "b">> ELSE IF i % 3 = 1 THEN <<"A">> ELSE <<"B">>,
     year   |-> IF i <= 20 THEN <<"2", "0", "0", "0">>
                ELSE IF i <= 41 THEN <<"2", "0", "0", "1">> ELSE <<"1", "9", "9", "9">>,
     rating |-> IF i <= 40 THEN <<"R">> ELSE <<"P", "G">>,
     genres |-> IF i % 2 = 0 THEN << <<"a">> >> ELSE << <<"B">>, <<"a">> >>]

BigMovies == [i \in 1..BigLen |-> BigMovie(i)]

SmallCatalogs ==
    UNION { [1..n -> SampleMovies] : n \in 0..MaxCatalogLen }

\* The documents /data/movies.json may hold.
Catalogs ==
    { Document(m) : m \in SmallCatalogs \cup { <<MovieA, MovieB, MovieC>>, BigMovies } }

\* ------------------------------------------------------------------ state
VARIABLES
    moviesData,      \* useState<MoviesData | null>: None or Some(document)
    currentPage,     \* useState(1)
    loading,         \* useState(true)
    error,           \* useState<string | null>: None or Some(message)
    searchParams,    \* useSearchParams: the query parameters of the last render
    searchTerm,      \* the four filter criteria
    selectedGenre,
    selectedYear,
    selectedRating,
    filterOptions,   \* useMemo cache, dependencies [moviesData]
    filteredMovies,  \* useMemo cache, dependencies [moviesData, criteria]
    pending,         \* state updates queued by setters, applied by the next render
    location,        \* the router's current query parameters
    navigation,      \* the navigation started by setSearchParams, not yet applied
    fetchState,      \* the catalog fetch: "idle", "inflight", "resolved", "rejected"
    mounted,         \* whether the effects of the first render have run
    urlChanges,      \* how many back/forward URL changes have happened
    lastChange,      \* the criteria asked for by the latest user or URL change
    fetches,         \* how many catalog fetches the home view has issued
    unmounted,       \* whether the home view has been torn down
    \* MovieDetail (route movie/:title)
    pathname,        \* the :title segment of the URL, as written in the URL
    detailMovie,     \* useState<Movie | null> (movie)
    detailLoading,   \* useState(true)
    detailError,     \* useState<string | null>
    loads,           \* the title parameters of the loadMovie calls in flight
    effectTitle,     \* the title parameter the load effect last ran for
    titleChanges     \* how many times the :title segment has changed

vars ==
    << moviesData, currentPage, loading, error, searchParams, searchTerm,
       selectedGenre, selectedYear, selectedRating, filterOptions, filteredMovies,
       pending, location, navigation, fetchState, mounted, urlChanges, lastChange,
       fetches, unmounted,
       pathname, detailMovie, detailLoading, detailError, loads, effectTitle, titleChanges >>

detailVars ==
    << pathname, detailMovie, detailLoading, detailError, loads, effectTitle, titleChanges >>

HookNames ==
    { "moviesData", "currentPage", "loading", "error",
      "searchTerm", "selectedGenre", "selectedYear", "selectedRating" }

\* The component's state hooks as of the last render.
Hooks ==
    [moviesData     |-> moviesData,
     currentPage    |-> currentPage,
     loading        |-> loading,
     error          |-> error,
     searchTerm     |-> searchTerm,
     selectedGenre  |-> selectedGenre,
     selectedYear   |-> selectedYear,
     selectedRating |-> selectedRating]

CriteriaOf(h) ==
    [searchTerm     |-> h.searchTerm,
     selectedGenre  |-> h.selectedGenre,
     selectedYear   |-> h.selectedYear,
     selectedRating |-> h.selectedRating]

NoPending == [h \in HookNames |-> None]

\* A setter call: the update is queued for the next render (a call that sets
\* the value the hook already has, with nothing queued, is dropped).
Enqueue(queue, cur, hook, value) ==
    IF queue[hook] = None /\ cur[hook] = value THEN queue
    ELSE [queue EXCEPT ![hook] = Some(value)]

\* The state a render sees: the queued updates applied to the hooks.
ApplyUpdates(cur, queue) ==
    [h \in HookNames |-> IF queue[h] = None THEN cur[h] ELSE queue[h][1]]

\* Filters-from-URL effect, lines 53-58 (runs when searchParams changed).
FiltersFromUrlEffect(queue, cur, params) ==
    LET c  == CriteriaFromParams(params)
        q1 == Enqueue(queue, cur, "searchTerm", c.searchTerm)
        q2 == Enqueue(q1, cur, "selectedGenre", c.selectedGenre)
        q3 == Enqueue(q2, cur, "selectedYear", c.selectedYear)
    IN  Enqueue(q3, cur, "selectedRating", c.selectedRating)

\* Mutant: the page-reset effect is missing.
NoPageResetEffect(queue, cur) == queue

\* Page-reset effect, lines 81-83 (runs when a criterion changed).
PageResetEffect(queue, cur) == Enqueue(queue, cur, "currentPage", 1)

\* URL-update effect, lines 42-50: setSearchParams(params, { replace: true }).
UrlUpdateEffect(cur) == Some(ParamsFromCriteria(CriteriaOf(cur)))

\* Mutant: the options are derived from the records that pass the criteria.
FilterOptionsNarrowed(prev, cache, n) ==
    IF n.moviesData = None THEN ComputeFilterOptions(None)
    ELSE ComputeFilterOptions(
             Some([total_movies |-> n.moviesData[1].total_movies,
                   movies |-> ComputeFilteredMovies(n.moviesData, n.searchTerm,
                                  n.selectedGenre, n.selectedYear, n.selectedRating)]))

\* useMemo(..., [moviesData]), lines 86-104: recomputed when moviesData changed
\* since the previous render (state prev, cached value cache).
FilterOptionsMemo(prev, cache, n) ==
    IF n.moviesData # prev.moviesData THEN ComputeFilterOptions(n.moviesData) ELSE cache

\* useMemo(..., [moviesData, searchTerm, selectedGenre, selectedYear,
\* selectedRating]), lines 107-125.
FilteredMoviesMemo(prev, cache, n) ==
    IF n.moviesData # prev.moviesData \/ CriteriaOf(n) # CriteriaOf(prev)
    THEN ComputeFilteredMovies(n.moviesData, n.searchTerm, n.selectedGenre,
                               n.selectedYear, n.selectedRating)
    ELSE cache

\* Mutant: the load effect depends on the criteria and fetches again when
\* they change.
LoadEffectRunsOnCriteria(criteriaChanged, paramsChanged) == criteriaChanged

\* Whether a re-render runs the load effect again: its dependency list is
\* empty (line 78), so never after the first render.
LoadEffectRuns(criteriaChanged, paramsChanged) == FALSE

\* One render with state n and query parameters params, its commit, and the
\* effects whose dependencies changed, in source order.  rest holds the queued
\* updates this render did not take.  setSearchParams is recreated whenever
\* searchParams changes, so the URL-update effect also runs on a URL change.
Commit(n, params, rest) ==
    LET criteriaChanged == CriteriaOf(n) # CriteriaOf(Hooks)
        paramsChanged   == params # searchParams
        reload    == LoadEffectRuns(criteriaChanged, paramsChanged)
        synced    == IF paramsChanged THEN FiltersFromUrlEffect(rest, n, params) ELSE rest
        afterSync == IF reload THEN Enqueue(synced, n, "loading", TRUE) ELSE synced
    IN  /\ fetches' = IF reload THEN fetches + 1 ELSE fetches
        /\ fetchState' = IF reload THEN "inflight" ELSE fetchState
        /\ moviesData' = n.moviesData
        /\ currentPage' = n.currentPage
        /\ loading' = n.loading
        /\ error' = n.error
        /\ searchTerm' = n.searchTerm
        /\ selectedGenre' = n.selectedGenre
        /\ selectedYear' = n.selectedYear
        /\ selectedRating' = n.selectedRating
        /\ searchParams' = params
        /\ filterOptions' = FilterOptionsMemo(Hooks, filterOptions, n)
        /\ filteredMovies' = FilteredMoviesMemo(Hooks, filteredMovies, n)
        /\ navigation' =
               IF criteriaChanged \/ paramsChanged THEN UrlUpdateEffect(n) ELSE navigation
        /\ pending' = IF criteriaChanged THEN PageResetEffect(afterSync, n) ELSE afterSync

\* ------------------------------------------------------------ derived view
totalPages == TotalPagesOf(Len(filteredMovies))
startIndex == StartIndexOf(currentPage)
endIndex == EndIndexOf(currentPage)
currentMovies == CurrentMoviesOf(filteredMovies, currentPage)

hasActiveFilters ==
    searchTerm # Empty \/ selectedGenre # Empty \/ selectedYear # Empty \/ selectedRating # Empty

\* The main view (inputs, grid, pagination) is rendered: lines 136-159 passed.
Interactive == ~loading /\ error = None /\ moviesData # None

\* Mutant: the message is shown whenever the visible page has no record.
NoResultsWhenPageEmpty == Interactive /\ Len(currentMovies) = 0

\* "No movies found matching your criteria." is rendered (lines 281-295).
NoResultsShown == Interactive /\ Len(filteredMovies) = 0

\* The grid of movie cards is rendered (lines 296-348).
GridShown == Interactive /\ ~(Len(filteredMovies) = 0)

\* The pagination controls are rendered (lines 350-402, inside the grid branch).
PaginationShown == Interactive /\ Len(filteredMovies) # 0 /\ totalPages > 1

\* The labels of the numbered buttons, left to right (lines 363-374).
NumberedButtons ==
    [k \in 1..Min(5, totalPages) |-> PageNumOf(k - 1, currentPage, totalPages)]

\* disabled of the Previous and Next buttons (lines 355, 392).
PreviousDisabled == currentPage = 1
NextDisabled == currentPage = totalPages

\* No render is outstanding: input events are delivered to the rendered view.
Idle == mounted /\ ~unmounted /\ pending = NoPending /\ searchParams = location

\* The values offered by a dropdown: "" and the first entries of its options.
Offered(options) ==
    {Empty} \cup { options[i] : i \in 1..Min(MaxOptions, Len(options)) }

\* ------------------------------------------------------------------- Init
HomeInit ==
    /\ location \in URLs
    /\ searchParams = location
    /\ moviesData = None
    /\ currentPage = 1
    /\ loading = TRUE
    /\ error = None
    /\ searchTerm = GetOrEmpty(location, "search")
    /\ selectedGenre = GetOrEmpty(location, "genre")
    /\ selectedYear = GetOrEmpty(location, "year")
    /\ selectedRating = GetOrEmpty(location, "rating")
    /\ filterOptions = ComputeFilterOptions(None)
    /\ filteredMovies = ComputeFilteredMovies(None, Empty, Empty, Empty, Empty)
    /\ pending = NoPending
    /\ navigation = None
    /\ fetchState = "idle"
    /\ mounted = FALSE
    /\ urlChanges = 0
    /\ lastChange = CriteriaFromParams(location)
    /\ fetches = 0
    /\ unmounted = FALSE

\* The detail view is not on screen: the URL is the index route.
DetailInactive ==
    /\ pathname = Empty
    /\ detailMovie = None
    /\ detailLoading = TRUE
    /\ detailError = None
    /\ loads = {}
    /\ effectTitle = None
    /\ titleChanges = 0

Init == HomeInit /\ DetailInactive

\* ---------------------------------------------------------------- actions
\* The effects of the first render, in source order: URL update, filters from
\* URL, loadMovies (setLoading(true), fetch), page reset.
MountEffects ==
    /\ ~mounted
    /\ mounted' = TRUE
    /\ navigation' = UrlUpdateEffect(Hooks)
    /\ fetchState' = "inflight"
    /\ fetches' = fetches + 1
    /\ pending' =
           PageResetEffect(
               Enqueue(FiltersFromUrlEffect(pending, Hooks, searchParams),
                       Hooks, "loading", TRUE),
               Hooks)
    /\ UNCHANGED << moviesData, currentPage, loading, error, searchParams, searchTerm,
                    selectedGenre, selectedYear, selectedRating, filterOptions,
                    filteredMovies, location, urlChanges, lastChange, unmounted >>
    /\ UNCHANGED detailVars

\* Mutant: setter calls made after the view is torn down still take effect.
DispatchAfterTeardown(queue, updated) == updated

\* The setter calls of loadMovies' continuation: a component that has been
\* torn down has no state left to update, so its setters do nothing.
Dispatch(queue, updated) == IF unmounted THEN queue ELSE updated

\* What the resolved fetch queues: setMoviesData(data); setLoading(false).
LoadSucceeded(queue, cur, doc) ==
    Enqueue(Enqueue(queue, cur, "moviesData", Some(doc)), cur, "loading", FALSE)

\* Mutant: the failure path never clears loading (no finally).
LoadFailedStillLoading(queue, cur, message) ==
    Enqueue(queue, cur, "error", Some(message))

\* What a failed fetch queues: setError(message); setLoading(false).
LoadFailed(queue, cur, message) ==
    Enqueue(Enqueue(queue, cur, "error", Some(message)), cur, "loading", FALSE)

\* The fetch resolves with an ok response whose body parses (lines 64-69, 73).
LoadSuccess(doc) ==
    /\ fetchState = "inflight"
    /\ fetchState' = "resolved"
    /\ pending' = Dispatch(pending, LoadSucceeded(pending, Hooks, doc))
    /\ UNCHANGED << moviesData, currentPage, loading, error, searchParams, searchTerm,
                    selectedGenre, selectedYear, selectedRating, filterOptions,
                    filteredMovies, location, navigation, mounted, urlChanges, lastChange,
                    fetches, unmounted >>
    /\ UNCHANGED detailVars

\* The messages of the three failures: !response.ok, fetch rejecting,
\* response.json() rejecting (lines 65-67, 70-71).
FailureMessages == { "Failed to load movies", "Failed to fetch", "Unexpected token" }

LoadFailure(message) ==
    /\ fetchState = "inflight"
    /\ fetchState' = "rejected"
    /\ pending' = Dispatch(pending, LoadFailed(pending, Hooks, message))
    /\ UNCHANGED << moviesData, currentPage, loading, error, searchParams, searchTerm,
                    selectedGenre, selectedYear, selectedRating, filterOptions,
                    filteredMovies, location, navigation, mounted, urlChanges, lastChange,
                    fetches, unmounted >>
    /\ UNCHANGED detailVars

\* React renders with the queued state updates (the setters called by effects
\* and by loadMovies).
RenderUpdates ==
    /\ mounted
    /\ ~unmounted
    /\ pending # NoPending
    /\ Commit(ApplyUpdates(Hooks, pending), searchParams, NoPending)
    /\ UNCHANGED << location, mounted, urlChanges, lastChange, unmounted >>
    /\ UNCHANGED detailVars

\* React renders with the router's new location.  The router publishes a
\* location inside a transition, which React renders after the queued state
\* updates.
RenderLocation ==
    /\ mounted
    /\ ~unmounted
    /\ pending = NoPending
    /\ location # searchParams
    /\ Commit(Hooks, location, NoPending)
    /\ UNCHANGED << location, mounted, urlChanges, lastChange, unmounted >>
    /\ UNCHANGED detailVars

\* The navigation started by setSearchParams completes: the URL is replaced.
\* (Leaving the route is itself a navigation and supersedes one in flight.)
NavigationComplete ==
    /\ ~unmounted
    /\ navigation # None
    /\ location' = navigation[1]
    /\ navigation' = None
    /\ UNCHANGED << moviesData, currentPage, loading, error, searchParams, searchTerm,
                    selectedGenre, selectedYear, selectedRating, filterOptions,
                    filteredMovies, pending, fetchState, mounted, urlChanges, lastChange,
                    fetches, unmounted >>
    /\ UNCHANGED detailVars

\* The user moves the URL from outside the view (browser back/forward) while
\* the view is settled: nothing queued and no navigation in flight.
PopState(params) ==
    /\ Idle
    /\ navigation = None
    /\ urlChanges < MaxUrlChanges
    /\ urlChanges' = urlChanges + 1
    /\ params # location
    /\ location' = params
    /\ navigation' = None
    /\ lastChange' = CriteriaFromParams(params)
    /\ UNCHANGED << moviesData, currentPage, loading, error, searchParams, searchTerm,
                    selectedGenre, selectedYear, selectedRating, filterOptions,
                    filteredMovies, pending, fetchState, mounted, fetches, unmounted >>
    /\ UNCHANGED detailVars

\* The home view is torn down (the user leaves the route) while the fetch is
\* in flight.  The fetch has no abort signal and goes on.  A teardown after
\* the fetch has ended leaves nothing of the view running and is not modelled.
Unmount ==
    /\ mounted
    /\ ~unmounted
    /\ fetchState = "inflight"
    /\ unmounted' = TRUE
    /\ UNCHANGED << moviesData, currentPage, loading, error, searchParams, searchTerm,
                    selectedGenre, selectedYear, selectedRating, filterOptions,
                    filteredMovies, pending, location, navigation, fetchState, mounted,
                    urlChanges, lastChange, fetches >>
    /\ UNCHANGED detailVars

\* An input event: the handler's setter calls, then the synchronous render.
UserChange(n) ==
    /\ Interactive
    /\ Idle
    /\ Commit(n, searchParams, NoPending)
    /\ lastChange' = CriteriaOf(n)
    /\ UNCHANGED << location, mounted, urlChanges, unmounted >>
    /\ UNCHANGED detailVars

\* onChange of the search box, line 210.
SetSearchTerm(value) ==
    /\ value # searchTerm
    /\ UserChange([Hooks EXCEPT !.searchTerm = value])

\* onChange of the genre dropdown, line 224.
SetSelectedGenre(value) ==
    /\ value \in Offered(filterOptions.genres)
    /\ value # selectedGenre
    /\ UserChange([Hooks EXCEPT !.selectedGenre = value])

\* onChange of the year dropdown, line 240.
SetSelectedYear(value) ==
    /\ value \in Offered(filterOptions.years)
    /\ value # selectedYear
    /\ UserChange([Hooks EXCEPT !.selectedYear = value])

\* onChange of the rating dropdown, line 256.
SetSelectedRating(value) ==
    /\ value \in Offered(filterOptions.ratings)
    /\ value # selectedRating
    /\ UserChange([Hooks EXCEPT !.selectedRating = value])

\* clearFilters, lines 128-134 (the buttons are shown when hasActiveFilters).
ClearFilters ==
    /\ hasActiveFilters
    /\ UserChange([Hooks EXCEPT !.searchTerm = Empty, !.selectedGenre = Empty,
                                !.selectedYear = Empty, !.selectedRating = Empty,
                                !.currentPage = 1])

\* handlePageChange, lines 166-169.
HandlePageChange(page) ==
    /\ PaginationShown
    /\ UserChange([Hooks EXCEPT !.currentPage = page])

\* Previous button, lines 354-360.
PreviousPage ==
    /\ ~PreviousDisabled
    /\ HandlePageChange(currentPage - 1)

\* Next button, lines 393-399.
NextPage ==
    /\ ~NextDisabled
    /\ HandlePageChange(currentPage + 1)

\* Numbered button i, lines 364-389.
NumberedPage(i) ==
    /\ i < Min(5, totalPages)
    /\ HandlePageChange(PageNumOf(i, currentPage, totalPages))

AllOptionValues ==
    { filterOptions.genres[i] : i \in 1..Len(filterOptions.genres) }
    \cup { filterOptions.years[i] : i \in 1..Len(filterOptions.years) }
    \cup { filterOptions.ratings[i] : i \in 1..Len(filterOptions.ratings) }
    \cup { Empty }

Next ==
    \/ MountEffects
    \/ \E doc \in Catalogs : LoadSuccess(doc)
    \/ \E message \in FailureMessages : LoadFailure(message)
    \/ RenderUpdates
    \/ RenderLocation
    \/ NavigationComplete
    \/ Unmount
    \/ \E params \in HistoryURLs : PopState(params)
    \/ \E value \in SearchTerms : SetSearchTerm(value)
    \/ \E value \in AllOptionValues : SetSelectedGenre(value)
    \/ \E value \in AllOptionValues : SetSelectedYear(value)
    \/ \E value \in AllOptionValues : SetSelectedRating(value)
    \/ ClearFilters
    \/ PreviousPage
    \/ NextPage
    \/ \E i \in 0..4 : NumberedPage(i)

Spec == Init /\ [][Next]_vars

\* ===================================================== pagination controls
\* Catalog lengths that give 1..MaxPagerPages pages, with a last page of 1, 5,
\* 10 or 20 records.
PagerLengths ==
    { MOVIES_PER_PAGE * k + r : k \in 0..(MaxPagerPages - 1), r \in {1, 5, 10, MOVIES_PER_PAGE} }

\* The home view with a catalog loaded and rendered, no criteria, on page 1.
PagerInit ==
    /\ \E len \in PagerLengths :
           moviesData = Some(Document([i \in 1..len |-> BigMovie(i)]))
    /\ location = NoParams
    /\ searchParams = NoParams
    /\ currentPage = 1
    /\ loading = FALSE
    /\ error = None
    /\ searchTerm = Empty
    /\ selectedGenre = Empty
    /\ selectedYear = Empty
    /\ selectedRating = Empty
    /\ filterOptions = ComputeFilterOptions(moviesData)
    /\ filteredMovies = ComputeFilteredMovies(moviesData, Empty, Empty, Empty, Empty)
    /\ pending = NoPending
    /\ navigation = None
    /\ fetchState = "resolved"
    /\ mounted = TRUE
    /\ urlChanges = 0
    /\ lastChange = CriteriaFromParams(NoParams)
    /\ fetches = 1
    /\ unmounted = FALSE
    /\ DetailInactive

\* The clicks on the pagination controls.
PagerNext ==
    \/ PreviousPage
    \/ NextPage
    \/ \E i \in 0..4 : NumberedPage(i)

PagerSpec == PagerInit /\ [][PagerNext]_vars

\* ============================================================ MovieDetail
\* The characters of the modelled strings.
Alphabet ==
    { "%", "0", "1", "2", "4", "5", "9", "A", "B", "C", "G", "P", "R", "a", "b", "c" }

\* The character with code unit n (String.fromCharCode).
CharOf(n) == CHOOSE c \in Alphabet : CodeUnit(c) = n

IsHexDigit(c) ==
    \/ IsDigit(c)
    \/ CodeUnit(c) >= 65 /\ CodeUnit(c) <= 70
    \/ CodeUnit(c) >= 97 /\ CodeUnit(c) <= 102

HexValue(c) ==
    IF IsDigit(c) THEN CodeUnit(c) - 48
    ELSE IF CodeUnit(c) <= 70 THEN CodeUnit(c) - 55
    ELSE CodeUnit(c) - 87

\* decodeURIComponent threw a URIError.
Thrown == [ok |-> FALSE, value |-> Empty]

\* decodeURIComponent from position k: a character other than "%" is copied;
\* "%" must be followed by two hexadecimal digits, which give one octet.  An
\* octet below 128 is the character with that code.  An octet of 128 or more
\* starts or continues a multi-octet sequence; the strings of this model hold
\* none that is well formed, and an ill-formed one throws.
RECURSIVE DecodeFrom(_, _, _)
DecodeFrom(str, k, acc) ==
    IF k > Len(str) THEN [ok |-> TRUE, value |-> acc]
    ELSE IF str[k] # "%" THEN DecodeFrom(str, k + 1, Append(acc, str[k]))
    ELSE IF k + 2 > Len(str) THEN Thrown
    ELSE IF ~IsHexDigit(str[k + 1]) \/ ~IsHexDigit(str[k + 2]) THEN Thrown
    ELSE LET octet == 16 * HexValue(str[k + 1]) + HexValue(str[k + 2])
         IN  IF octet >= 128 THEN Thrown
             ELSE DecodeFrom(str, k + 3, Append(acc, CharOf(octet)))

DecodeURIComponent(str) == DecodeFrom(str, 1, Empty)

\* The router decodes a path segment before it matches the route and hands
\* the parameters to useParams; a segment it cannot decode is kept as written.
DecodePath(segment) ==
    LET decoded == DecodeURIComponent(segment)
    IN  IF decoded.ok THEN decoded.value ELSE segment

\* const { title } = useParams() (line 442).
titleParam == DecodePath(pathname)

\* data.movies.find(m => m.title.toLowerCase() === decodedTitle.toLowerCase()):
\* the first such record, or undefined (lines 458-460).
FindMovie(data, decodedTitle) ==
    LET found == { i \in 1..Len(data.movies) :
                      ToLowerCase(data.movies[i].title) = ToLowerCase(decodedTitle) }
    IN  IF found = {} THEN None
        ELSE Some(data.movies[CHOOSE i \in found : \A j \in found : i <= j])

\* What loadMovie does with the parsed document (lines 456-466, 467-468): the
\* record to pass to setMovie, or the message to pass to setError.
LookUp(data, title) ==
    LET decodedTitle == DecodeURIComponent(title)
    IN  IF ~decodedTitle.ok THEN [movie |-> None, error |-> Some("URI malformed")]
        ELSE LET foundMovie == FindMovie(data, decodedTitle.value)
             IN  IF foundMovie # None THEN [movie |-> foundMovie, error |-> None]
                 ELSE [movie |-> None, error |-> Some("Movie not found")]

MoviePercent == [title |-> <<"%">>, year |-> <<"2", "0", "0", "1">>, rating |-> <<"G">>,
                 genres |-> << <<"a">> >>]

\* The document /data/movies.json holds while the detail view is used.
DetailCatalog == Document(<<MovieA, MovieD, MoviePercent>>)

\* The :title segments of the URLs the detail view is opened with: A, a,
\* Cab, B (no such title), %41 (A, encoded), %25 (the title "%", encoded) and
\* %2541 (the text "%41", encoded).
Segments ==
    { <<"A">>, <<"a">>, <<"C", "a", "b">>, <<"B">>, <<"%", "4", "1">>, <<"%", "2", "5">>,
      <<"%", "2", "5", "4", "1">> }

\* The home view is not on screen.
HomeInactive == HomeInit /\ location = NoParams

homeVars ==
    << moviesData, currentPage, loading, error, searchParams, searchTerm,
       selectedGenre, selectedYear, selectedRating, filterOptions, filteredMovies,
       pending, location, navigation, fetchState, mounted, urlChanges, lastChange,
       fetches, unmounted >>

\* The first render of MovieDetail, lines 442-445.
DetailInit ==
    /\ HomeInactive
    /\ pathname \in Segments
    /\ detailMovie = None
    /\ detailLoading = TRUE
    /\ detailError = None
    /\ loads = {}
    /\ effectTitle = None
    /\ titleChanges = 0

\* The effect keyed on title (lines 447-477) runs after a render in which
\* title differs from the one it last ran for: loadMovie sets loading and
\* issues the fetch.
LoadMovieEffect ==
    /\ effectTitle # Some(titleParam)
    /\ effectTitle' = Some(titleParam)
    /\ IF titleParam # Empty
       THEN /\ detailLoading' = TRUE
            /\ loads' = loads \cup {titleParam}
       ELSE UNCHANGED << detailLoading, loads >>
    /\ UNCHANGED << pathname, detailMovie, detailError, titleChanges >>
    /\ UNCHANGED homeVars

\* The fetch of the loadMovie call for title t resolves with an ok response
\* whose body parses (lines 450-466, 469-470).
LoadMovieSuccess(t) ==
    /\ t \in loads
    /\ loads' = loads \ {t}
    /\ LET result == LookUp(DetailCatalog, t)
       IN  /\ detailMovie' = IF result.movie # None THEN result.movie ELSE detailMovie
           /\ detailError' = IF result.error # None THEN result.error ELSE detailError
    /\ detailLoading' = FALSE
    /\ UNCHANGED << pathname, effectTitle, titleChanges >>
    /\ UNCHANGED homeVars

\* The fetch of the loadMovie call for title t fails (lines 451-453, 467-470).
LoadMovieFailure(t, message) ==
    /\ t \in loads
    /\ loads' = loads \ {t}
    /\ detailError' = Some(message)
    /\ detailLoading' = FALSE
    /\ UNCHANGED << pathname, detailMovie, effectTitle, titleChanges >>
    /\ UNCHANGED homeVars

\* The URL moves to another movie/:title while the detail view stays mounted
\* (the route is the same, so the component instance is kept).
TitleChange(segment) ==
    /\ effectTitle # None
    /\ titleChanges < MaxTitleChanges
    /\ segment # pathname
    /\ pathname' = segment
    /\ titleChanges' = titleChanges + 1
    /\ UNCHANGED << detailMovie, detailLoading, detailError, loads, effectTitle >>
    /\ UNCHANGED homeVars

\* What MovieDetail renders (lines 479-508 and after).
DetailView ==
    IF detailLoading THEN [kind |-> "loading"]
    ELSE IF detailError # None \/ detailMovie = None
         THEN [kind |-> "error",
               message |-> IF detailError # None THEN detailError[1] ELSE "Movie not found"]
    ELSE [kind |-> "movie", movie |-> detailMovie[1]]

DetailNext ==
    \/ LoadMovieEffect
    \/ \E t \in loads : LoadMovieSuccess(t)
    \/ \E t \in loads : \E message \in FailureMessages : LoadMovieFailure(t, message)
    \/ \E segment \in Segments : TitleChange(segment)

DetailSpec == DetailInit /\ [][DetailNext]_vars

\* ================================================================ claims
\* Helpers of the claims: the filter criteria stated on their own terms.

\* Two characters that are equal up to letter case.
SameLetter(a, b) ==
    a = b \/ {a, b} \in { {"A", "a"}, {"B", "b"}, {"C", "c"} }

\* term occurs in title at some offset, comparing letters up to case.
OccursIgnoringCase(term, title) ==
    \E k \in 0..(Len(title) - Len(term)) :
        \A j \in 1..Len(term) : SameLetter(title[k + j], term[j])

\* The record passes the four current criteria.
Passes(movie) ==
    /\ searchTerm = Empty \/ OccursIgnoringCase(searchTerm, movie.title)
    /\ selectedGenre = Empty
         \/ selectedGenre \in { movie.genres[i] : i \in 1..Len(movie.genres) }
    /\ selectedYear = Empty \/ selectedYear = movie.year
    /\ selectedRating = Empty \/ selectedRating = movie.rating

\* The catalog positions of the records that pass.
KeptIndices ==
    { i \in 1..Len(moviesData[1].movies) : Passes(moviesData[1].movies[i]) }

\* C1: with the catalog loaded, a catalog record is in the filtered list if and
\* only if the search term is empty or a case-insensitive substring of its
\* title, the genre is empty or in its genre list, the year is empty or equal
\* to its year, and the rating is empty or equal to its rating.
C1_FilterExact ==
    moviesData # None =>
        \A i \in 1..Len(moviesData[1].movies) :
            (\E j \in 1..Len(filteredMovies) : filteredMovies[j] = moviesData[1].movies[i])
                <=> Passes(moviesData[1].movies[i])

\* C1 witness: a search term in another case than the titles keeps some records
\* and drops others.
C1_Witness ==
    /\ moviesData # None
    /\ searchTerm = <<"A", "B">>
    /\ Len(filteredMovies) > 0
    /\ Len(filteredMovies) < Len(moviesData[1].movies)

\* C2: the filtered list is the catalog restricted to a set of positions, taken
\* in increasing position (a subsequence in catalog order: nothing reordered,
\* duplicated or invented); records A, B, C with years 2000, 2001, 2000 filtered
\* by year 2000 give [A, C].
C2_FilterSubsequence ==
    moviesData # None =>
        /\ Len(filteredMovies) = Cardinality(KeptIndices)
        /\ \A i \in KeptIndices :
               filteredMovies[Cardinality({ k \in KeptIndices : k <= i })]
                   = moviesData[1].movies[i]
        /\ ( /\ moviesData = Some(Document(<<MovieA, MovieB, MovieC>>))
             /\ CriteriaOf(Hooks) =
                    [searchTerm |-> Empty, selectedGenre |-> Empty,
                     selectedYear |-> <<"2", "0", "0", "0">>, selectedRating |-> Empty] )
           => filteredMovies = <<MovieA, MovieC>>

\* C2 witness: the catalog A, B, C filtered by year 2000.
C2_Witness ==
    /\ moviesData = Some(Document(<<MovieA, MovieB, MovieC>>))
    /\ selectedYear = <<"2", "0", "0", "0">>
    /\ searchTerm = Empty /\ selectedGenre = Empty /\ selectedRating = Empty
    /\ Len(filteredMovies) = 2

\* The current criteria.
Criteria == CriteriaOf(Hooks)

\* C3: a step that changes any criterion (by an input, by clearFilters or by a
\* render that takes the criteria from a changed URL) leaves the page at 1 or
\* queues setCurrentPage(1), whatever the page was; and when the queued reset is
\* rendered the page is 1.
C3_PageReset ==
    [][ /\ Criteria' # Criteria =>
               \/ currentPage' = 1 /\ pending'.currentPage = None
               \/ pending'.currentPage = Some(1)
        /\ (pending.currentPage = Some(1) /\ pending'.currentPage # Some(1)) =>
               currentPage' = 1 ]_vars

\* C3 witness: a criterion was changed on a later page and the reset is queued.
C3_Witness ==
    /\ currentPage > 1
    /\ pending.currentPage = Some(1)

\* C4: whenever the catalog is loaded and the filtered list is not empty, the
\* current page is in 1..pageCount and the visible slice is not empty, also
\* between a filter change and the page reset it triggers.
C4_PageInRange ==
    (Interactive /\ Len(filteredMovies) > 0) =>
        /\ currentPage \in 1..totalPages
        /\ Len(currentMovies) > 0

\* The slices of pages 1..n, one after the other.
RECURSIVE PagesUpTo(_, _)
PagesUpTo(list, n) ==
    IF n = 0 THEN <<>> ELSE PagesUpTo(list, n - 1) \o CurrentMoviesOf(list, n)

\* The lengths of the slices of pages 1..n, summed.
RECURSIVE PageLengthsUpTo(_, _)
PageLengthsUpTo(list, n) ==
    IF n = 0 THEN 0 ELSE PageLengthsUpTo(list, n - 1) + Len(CurrentMoviesOf(list, n))

\* C5: the slices of pages 1..ceil(L/P) partition the filtered list: their
\* lengths sum to L, every index 0..L-1 lies in exactly one page, and the pages
\* in order give back the list.
C5_PagesPartition ==
    moviesData # None =>
        /\ PageLengthsUpTo(filteredMovies, totalPages) = Len(filteredMovies)
        /\ PagesUpTo(filteredMovies, totalPages) = filteredMovies
        /\ \A idx \in 0..(Len(filteredMovies) - 1) :
               Cardinality({ p \in 1..totalPages :
                   /\ StartIndexOf(p) <= idx
                   /\ idx < StartIndexOf(p) + Len(CurrentMoviesOf(filteredMovies, p)) }) = 1

\* C5 witness: a filtered list of several pages whose last page is not full.
C5_Witness ==
    /\ moviesData # None
    /\ totalPages >= 2
    /\ Len(filteredMovies) % MOVIES_PER_PAGE # 0

\* C6: the page count is the ceiling of L / pageSize, and the slice of page n is
\* the indices (n-1)*pageSize .. n*pageSize - 1 clipped to the list; a list of
\* 45 has 3 pages and page 3 holds indices 40..44.
C6_PageSlice ==
    moviesData # None =>
        LET L == Len(filteredMovies)
            P == MOVIES_PER_PAGE
        IN  /\ totalPages * P >= L
            /\ (totalPages - 1) * P < L
            /\ \A n \in 1..Max(totalPages, currentPage) :
                   CurrentMoviesOf(filteredMovies, n) =
                       [k \in 1..(Min(n * P, L) - Min((n - 1) * P, L))
                           |-> filteredMovies[(n - 1) * P + k]]
            /\ L = 45 =>
                   /\ totalPages = 3
                   /\ CurrentMoviesOf(filteredMovies, 3) = SubSeq(filteredMovies, 41, 45)

\* C6 witness: page 3 of a filtered list of 45 shows 5 records.
C6_Witness ==
    /\ Interactive
    /\ Len(filteredMovies) = 45
    /\ currentPage = 3
    /\ Len(currentMovies) = 5

\* The loader's setter calls have been rendered.
LoaderRendered ==
    /\ ~unmounted
    /\ fetchState \in {"resolved", "rejected"}
    /\ pending.moviesData = None /\ pending.error = None /\ pending.loading = None

\* C7: once the fetch has ended and its updates are rendered, loading is clear
\* and either the catalog is there with no error (success) or an error is set
\* with no catalog (failure); an error and a catalog are never both present.
C7_LoadOutcome ==
    /\ ~(error # None /\ moviesData # None)
    /\ fetchState \in {"idle", "inflight"} => (moviesData = None /\ error = None)
    /\ (LoaderRendered /\ fetchState = "resolved") =>
           (~loading /\ moviesData # None /\ error = None)
    /\ (LoaderRendered /\ fetchState = "rejected") =>
           (~loading /\ moviesData = None /\ error # None)

\* C7 witness: a failed fetch has been rendered.
C7_Witness ==
    /\ LoaderRendered
    /\ fetchState = "rejected"
    /\ error = Some("Failed to load movies")

\* Nothing is left to do: no queued update, no navigation in flight, and the
\* last render saw the current URL.
Quiescent ==
    /\ mounted
    /\ ~unmounted
    /\ pending = NoPending
    /\ navigation = None
    /\ searchParams = location

\* C8: when the two synchronization effects have quiesced, the criteria are
\* those of the most recent user or URL change and the URL carries exactly the
\* non-empty criteria.
C8_UrlSync ==
    Quiescent =>
        /\ Criteria = lastChange
        /\ location = ParamsFromCriteria(Criteria)

\* The distinct elements of a sequence.
ElementsOf(seq) == { seq[i] : i \in 1..Len(seq) }

\* C9: while the catalog stays the same the filter options stay the same,
\* whatever criteria and page changes are applied, and they always offer the
\* values of every catalog record, not only of the filtered ones.
C9_OptionsIndependent ==
    /\ [][moviesData' = moviesData => filterOptions' = filterOptions]_vars
    /\ [](moviesData # None =>
            \A i \in 1..Len(moviesData[1].movies) :
                /\ moviesData[1].movies[i].year \in ElementsOf(filterOptions.years)
                /\ moviesData[1].movies[i].rating \in ElementsOf(filterOptions.ratings)
                /\ ElementsOf(moviesData[1].movies[i].genres)
                       \subseteq ElementsOf(filterOptions.genres))

\* C9 witness: criteria are active and the options offer a year that no
\* filtered record has.
C9_Witness ==
    /\ moviesData # None
    /\ hasActiveFilters
    /\ \E y \in ElementsOf(filterOptions.years) :
           \A j \in 1..Len(filteredMovies) : filteredMovies[j].year # y

\* a is before b in lexicographic order of code units.
LexLess(a, b) ==
    \E k \in 1..(Min(Len(a), Len(b)) + 1) :
        /\ \A j \in 1..(k - 1) : a[j] = b[j]
        /\ \/ k = Len(a) + 1 /\ k <= Len(b)
           \/ k <= Len(a) /\ k <= Len(b) /\ CodeUnit(a[k]) < CodeUnit(b[k])

\* The number a 4-digit year string denotes.
DigitOf(c) == CHOOSE d \in 0..9 : CodeUnit(c) = CodeUnit("0") + d
YearNumber(year) ==
    DigitOf(year[1]) * 1000 + DigitOf(year[2]) * 100 + DigitOf(year[3]) * 10 + DigitOf(year[4])

\* C10: with the catalog loaded the options are exactly the genres, years and
\* ratings occurring in the catalog, without duplicates, genres and ratings in
\* ascending lexicographic order and years in descending numeric order; with
\* no catalog all three are empty.
C10_OptionsExact ==
    /\ moviesData = None =>
           filterOptions = [genres |-> <<>>, years |-> <<>>, ratings |-> <<>>]
    /\ moviesData # None =>
           LET movies == moviesData[1].movies
               idx == 1..Len(movies)
               o == filterOptions
           IN  /\ ElementsOf(o.genres) = UNION { ElementsOf(movies[i].genres) : i \in idx }
               /\ ElementsOf(o.years) = { movies[i].year : i \in idx }
               /\ ElementsOf(o.ratings) = { movies[i].rating : i \in idx }
               /\ \A i \in 1..Len(o.genres), j \in 1..Len(o.genres) :
                      i < j => LexLess(o.genres[i], o.genres[j])
               /\ \A i \in 1..Len(o.ratings), j \in 1..Len(o.ratings) :
                      i < j => LexLess(o.ratings[i], o.ratings[j])
               /\ \A i \in 1..Len(o.years), j \in 1..Len(o.years) :
                      i < j => YearNumber(o.years[i]) > YearNumber(o.years[j])

\* C10 witness: a catalog with three years, two genres and two ratings.
C10_Witness ==
    /\ moviesData # None
    /\ Len(filterOptions.years) = 3
    /\ Len(filterOptions.genres) = 2
    /\ Len(filterOptions.ratings) = 2

\* C11: with the catalog loaded and the filtered list empty, the page count is
\* zero and the view shows the "no results" message, with neither the grid nor
\* the pagination controls; the message is shown only when the filtered list
\* is empty.
C11_NoResults ==
    /\ (moviesData # None /\ Len(filteredMovies) = 0) =>
           /\ totalPages = 0
           /\ NoResultsShown
           /\ ~GridShown
           /\ ~PaginationShown
    /\ NoResultsShown => (Len(filteredMovies) = 0 /\ ~GridShown /\ ~PaginationShown)
    /\ (moviesData # None /\ Len(filteredMovies) > 0) => (GridShown /\ ~NoResultsShown)

\* C11 witness: a non-empty catalog is loaded and the criteria exclude every
\* record.
C11_Witness ==
    /\ moviesData # None
    /\ Len(moviesData[1].movies) > 0
    /\ hasActiveFilters
    /\ Len(filteredMovies) = 0
    /\ NoResultsShown

\* The detail view's one load for the title it was opened with has ended, and
\* the catalog was fetched.
FirstLookupDone ==
    /\ titleChanges = 0
    /\ effectTitle # None
    /\ loads = {}
    /\ \A message \in FailureMessages : detailError # Some(message)

\* The catalog records whose title is the text, up to letter case.
TitledIgnoringCase(text) ==
    { i \in 1..Len(DetailCatalog.movies) :
          /\ Len(DetailCatalog.movies[i].title) = Len(text)
          /\ \A j \in 1..Len(text) : SameLetter(DetailCatalog.movies[i].title[j], text[j]) }

\* C12: the URL-encoded title of the path, decoded, is matched against the
\* catalog titles up to letter case; when a record matches, that record is
\* displayed, and when none matches the view ends with error "Movie not found"
\* and no movie set.
C12_TitleLookup ==
    FirstLookupDone =>
        LET wanted   == DecodeURIComponent(pathname)
            matching == IF wanted.ok THEN TitledIgnoringCase(wanted.value) ELSE {}
        IN  /\ matching # {} =>
                   /\ DetailView.kind = "movie"
                   /\ DetailView.movie \in { DetailCatalog.movies[i] : i \in matching }
            /\ matching = {} =>
                   /\ DetailView.kind = "error"
                   /\ detailError = Some("Movie not found")
                   /\ detailMovie = None

\* C13: one activation of the home view issues exactly one catalog fetch: the
\* count is 1 from the first effects on, whatever filter, page and URL changes
\* follow; a failed fetch stays failed (no retry) and an error, once shown,
\* stays.
C13_SingleFetch ==
    /\ [](fetches = IF mounted THEN 1 ELSE 0)
    /\ [][fetchState = "rejected" => (fetchState' = "rejected" /\ fetches' = fetches)]_vars
    /\ [][error # None => (error' = error /\ moviesData' = None)]_vars

\* C13 witness: the fetch failed, the error is shown, and the URL has changed
\* since.
C13_Witness ==
    /\ fetches = 1
    /\ fetchState = "rejected"
    /\ error # None
    /\ urlChanges > 0
    /\ searchParams = location

C15_EmptyCriteria ==
    /\ [](~hasActiveFilters =>
              filteredMovies = IF moviesData = None THEN <<>> ELSE moviesData[1].movies)
    /\ [][ClearFilters =>
              /\ ~hasActiveFilters'
              /\ currentPage' = 1
              /\ filteredMovies' = moviesData[1].movies]_vars

\* C15 witness: the criteria of a catalog of several records have just been
\* emptied (the URL still carries the old ones) and the whole catalog is
\* listed from page 1.
C15_Witness ==
    /\ moviesData # None
    /\ Len(moviesData[1].movies) >= 3
    /\ ~hasActiveFilters
    /\ location # NoParams
    /\ navigation = Some(NoParams)
    /\ currentPage = 1
    /\ filteredMovies = moviesData[1].movies

\* No load of the detail view is in flight: the load effect has run for the
\* current title and every fetch has ended, none with a fetch failure shown.
DetailSettled ==
    /\ effectTitle = Some(titleParam)
    /\ loads = {}
    /\ \A message \in FailureMessages : detailError # Some(message)

\* C16: whenever no load is in flight, the detail view shows the outcome of
\* looking up the current title: the matching record if there is one, the
\* lookup's error otherwise, also after the title has changed within the same
\* view instance.
C16_CurrentTitleShown ==
    DetailSettled =>
        LET result == LookUp(DetailCatalog, titleParam)
        IN  IF result.movie # None
            THEN DetailView = [kind |-> "movie", movie |-> result.movie[1]]
            ELSE DetailView = [kind |-> "error", message |-> result.error[1]]

\* C17: while the pagination controls are shown with the page in 1..pageCount,
\* the numbered buttons are min(5, pageCount) consecutive ascending page
\* numbers within 1..pageCount, one of them the current page; Previous is
\* disabled exactly on page 1 and Next exactly on the last page; and no click
\* on a control takes the page out of 1..pageCount.
C17_PageControls ==
    /\ []((PaginationShown /\ currentPage \in 1..totalPages) =>
             /\ Len(NumberedButtons) = Min(5, totalPages)
             /\ \A k \in 1..(Len(NumberedButtons) - 1) :
                    NumberedButtons[k + 1] = NumberedButtons[k] + 1
             /\ NumberedButtons[1] >= 1
             /\ NumberedButtons[Len(NumberedButtons)] <= totalPages
             /\ \E k \in 1..Len(NumberedButtons) : NumberedButtons[k] = currentPage
             /\ PreviousDisabled <=> currentPage = 1
             /\ NextDisabled <=> currentPage = totalPages)
    /\ [][(PaginationShown /\ currentPage \in 1..totalPages) =>
              currentPage' \in 1..totalPages']_vars

\* C17 witness: page 5 of 8, where the window of buttons is 3..7.
C17_Witness ==
    /\ PaginationShown
    /\ totalPages = 8
    /\ currentPage = 5
    /\ NumberedButtons = <<3, 4, 5, 6, 7>>

====
